---- MODULE Spec2Model ----
(***************************************************************************)
(* A model of Python-Markdown's HTML/XHTML serializer                      *)
(* (markdown/serializers.py) and of the CodeHilite extension               *)
(* (markdown/extensions/codehilite.py).                                    *)
(*                                                                         *)
(* A Python str is a sequence of one-character strings: "&lt;" is          *)
(* <<"&", "l", "t", ";">>.  None and the empty str are both <<>> where the *)
(* code only tests truthiness.                                             *)
(***************************************************************************)
EXTENDS Integers, Sequences, FiniteSets, TLC

VARIABLES
    pc,         \* where the modelled call stands
    elem,       \* serializer: the Element handed to to_html_string / to_xhtml_string
    format,     \* serializer: "html" | "xhtml" once a public function was called
    data,       \* serializer: the list `data` that `write` appends to, one entry per write
    pygments,   \* codehilite: the module's `pygments` flag (the import succeeded)
    kwargs,     \* codehilite: what CodeHilite(...) is called with: [src, options]
    shebang,    \* codehilite: the argument of hilite()
    code,       \* codehilite: the CodeHilite object
    result,     \* codehilite: what hilite() returned
    calls,      \* codehilite: the highlighter functions called, in order
    root,       \* treeprocessor: the document tree handed to run()
    config,     \* treeprocessor: HiliteTreeprocessor.config
    stash,      \* treeprocessor: md.htmlStash.rawHtmlBlocks
    plain,      \* treeprocessor: the source text of a code block, before the parser escaped it
    block_text, \* treeprocessor: the text of a code element, the argument of code_unescape
    unescaped   \* treeprocessor: what code_unescape returned

vars == <<pc, elem, format, data, pygments, kwargs, shebang, code, result, calls,
          root, config, stash, plain, block_text, unescaped>>

serializer_vars == <<elem, format, data>>
codehilite_vars == <<pygments, kwargs, shebang, code, result, calls>>
treeprocessor_vars == <<root, config, stash, plain, block_text, unescaped>>

----------------------------------------------------------------------------
(* Bounds of the model.                                                    *)

\* longest str drawn over the full escaping alphabet
MaxLen == 4
\* most children of an element
MaxChildren == 2
\* most attributes of an element
MaxAttrs == 2
\* most characters between the marker and the rest of a block's first line
MaxHeader == 3

----------------------------------------------------------------------------
(* Strings.                                                                *)

RECURSIVE Concat(_)
Concat(ss) == IF ss = <<>> THEN <<>> ELSE Head(ss) \o Concat(Tail(ss))

\* `c in text`
Contains(text, c) == \E i \in 1..Len(text) : text[i] = c

\* text.replace(c, r) for a one-character c
RECURSIVE Replace(_, _, _)
Replace(text, c, r) ==
    IF text = <<>> THEN <<>>
    ELSE (IF Head(text) = c THEN r ELSE <<Head(text)>>) \o Replace(Tail(text), c, r)

\* text[i:] (0-based i, as in Python)
From(text, i) == SubSeq(text, i + 1, Len(text))

\* whether text has `pat` at 1-based position i
HasAt(text, i, pat) ==
    /\ i + Len(pat) - 1 <= Len(text)
    /\ \A j \in 1..Len(pat) : text[i + j - 1] = pat[j]

UpperAZ == <<"A", "B", "C", "D", "E", "F", "G", "H", "I", "J", "K", "L", "M",
             "N", "O", "P", "Q", "R", "S", "T", "U", "V", "W", "X", "Y", "Z">>
LowerAZ == <<"a", "b", "c", "d", "e", "f", "g", "h", "i", "j", "k", "l", "m",
             "n", "o", "p", "q", "r", "s", "t", "u", "v", "w", "x", "y", "z">>
Digits == {"0", "1", "2", "3", "4", "5", "6", "7", "8", "9"}
UpperSet == {UpperAZ[i] : i \in 1..26}
LowerSet == {LowerAZ[i] : i \in 1..26}

\* str.lower(), one character
LowerChar(c) ==
    IF c \in UpperSet THEN LowerAZ[CHOOSE i \in 1..26 : UpperAZ[i] = c] ELSE c

\* str.lower()
Lower(text) == [i \in 1..Len(text) |-> LowerChar(text[i])]

\* the code-point order of the characters the model uses
CodeOrder == <<"\n", " ", "!", "\"", "#", "&", "'", "+", "-", ".", "/">>
             \o <<"0", "1", "2", "3", "4", "5", "6", "7", "8", "9">>
             \o <<":", ";", "<", "=", ">", "?">> \o UpperAZ \o <<"_">> \o LowerAZ
             \o <<"{", "}">>
Code(c) == CHOOSE i \in 1..Len(CodeOrder) : CodeOrder[i] = c

\* a < b for two str, as Python compares them
RECURSIVE StrLess(_, _)
StrLess(a, b) ==
    IF b = <<>> THEN FALSE
    ELSE IF a = <<>> THEN TRUE
    ELSE IF Head(a) = Head(b) THEN StrLess(Tail(a), Tail(b))
    ELSE Code(Head(a)) < Code(Head(b))

----------------------------------------------------------------------------
(* markdown/serializers.py                                                 *)

AMP == <<"&", "a", "m", "p", ";">>
LT == <<"&", "l", "t", ";">>
GT == <<"&", "g", "t", ";">>
QUOT == <<"&", "q", "u", "o", "t", ";">>
NL == <<"&", "#", "1", "0", ";">>

\* [0-9]+ , [0-9a-f]+ and [0-9a-z]+ under re.I
IsDecRun(s) == s # <<>> /\ \A i \in 1..Len(s) : s[i] \in Digits
IsHexRun(s) ==
    s # <<>> /\ \A i \in 1..Len(s) :
        s[i] \in Digits \cup {"a", "b", "c", "d", "e", "f", "A", "B", "C", "D", "E", "F"}
IsAlnumRun(s) ==
    s # <<>> /\ \A i \in 1..Len(s) : s[i] \in Digits \cup LowerSet \cup UpperSet

\* (?:\#[0-9]+|\#x[0-9a-f]+|[0-9a-z]+) under re.I, matched against the whole of s
IsEntityBody(s) ==
    \/ (s # <<>> /\ Head(s) = "#" /\ IsDecRun(Tail(s)))
    \/ (Len(s) >= 2 /\ s[1] = "#" /\ s[2] \in {"x", "X"} /\ IsHexRun(From(s, 2)))
    \/ IsAlnumRun(s)

\* the lookahead of RE_AMP: an entity body and then ";" follow position i
EntityFollows(text, i) ==
    \E j \in (i + 1)..Len(text) :
        text[j] = ";" /\ IsEntityBody(SubSeq(text, i + 1, j - 1))

\* RE_AMP matches the "&" at position i of text
RE_AMP(text, i) == text[i] = "&" /\ ~EntityFollows(text, i)

\* RE_AMP.sub('&amp;', text): the matches are decided on the text as it was
RE_AMP_sub(text) ==
    Concat([i \in 1..Len(text) |-> IF RE_AMP(text, i) THEN AMP ELSE <<text[i]>>])

\* a bug _escape_cdata could have: the "&" left as they are
escape_cdata_no_amp(text) ==
    IF Contains(text, "<") THEN Replace(text, "<", LT) ELSE text

\* `if "&" in text: text = RE_AMP.sub('&amp;', text)`
IfAmpSub(text) == IF Contains(text, "&") THEN RE_AMP_sub(text) ELSE text

\* `if c in text: text = text.replace(c, r)`
IfReplace(text, c, r) == IF Contains(text, c) THEN Replace(text, c, r) ELSE text

escape_cdata(text) == IfReplace(IfAmpSub(text), "<", LT)

escape_attrib(text) ==
    IfReplace(IfReplace(IfReplace(IfReplace(IfAmpSub(text), "<", LT), ">", GT),
                        "\"", QUOT), "\n", NL)

escape_attrib_html(text) ==
    IfReplace(IfReplace(IfReplace(IfAmpSub(text), "<", LT), ">", GT), "\"", QUOT)

\* xml.etree.ElementTree.HTML_EMPTY, imported by serializers.py
HTML_EMPTY == {
    <<"a", "r", "e", "a">>,
    <<"b", "a", "s", "e">>,
    <<"b", "a", "s", "e", "f", "o", "n", "t">>,
    <<"b", "r">>,
    <<"c", "o", "l">>,
    <<"e", "m", "b", "e", "d">>,
    <<"f", "r", "a", "m", "e">>,
    <<"h", "r">>,
    <<"i", "m", "g">>,
    <<"i", "n", "p", "u", "t">>,
    <<"i", "s", "i", "n", "d", "e", "x">>,
    <<"l", "i", "n", "k">>,
    <<"m", "e", "t", "a">>,
    <<"p", "a", "r", "a", "m">>,
    <<"s", "o", "u", "r", "c", "e">>,
    <<"t", "r", "a", "c", "k">>,
    <<"w", "b", "r">> }

\* the tags whose text is written unescaped
RawTextTags == { <<"s", "c", "r", "i", "p", "t">>, <<"s", "t", "y", "l", "e">> }

(* An Element.  kind is "element" for a str or QName tag, "comment" for     *)
(* `tag is Comment`, "pi" for `tag is ProcessingInstruction`, "none" for   *)
(* `tag is None`.  qname says the tag is a QName, whose .text is `tag`.    *)
(* attrib is the dict's items in insertion order, each [k, v, vq] with vq  *)
(* saying the value is a QName whose .text is v.                           *)
Element(kind, qname, tag, attrib, text, tail, children) ==
    [kind |-> kind, qname |-> qname, tag |-> tag, attrib |-> attrib,
     text |-> text, tail |-> tail, children |-> children]

\* one write(...): the str written, the statement that wrote it (src) and the
\* element it was written for (node, the path of child positions from the root)
Write(s, src, node) == [s |-> s, src |-> src, node |-> node]

\* sorted(items): insertion sort on the keys, which are unique
RECURSIVE sorted(_)
InsertItem(item, items) ==
    LET n == Cardinality({i \in 1..Len(items) : StrLess(items[i].k, item.k)})
    IN SubSeq(items, 1, n) \o <<item>> \o SubSeq(items, n + 1, Len(items))
sorted(items) ==
    IF items = <<>> THEN <<>> ELSE InsertItem(Head(items), sorted(Tail(items)))

\* a bug the loop body could have: the boolean form written in both formats
write_item_any_format(item, fmt, node) ==
    LET v == IF item.vq THEN item.v ELSE escape_attrib_html(item.v)
        src == IF item.vq THEN "qname_value" ELSE "attrib_value"
    IN IF item.k = v
       THEN << Write(<<" ">>, "attrib_bare", node), Write(v, src, node) >>
       ELSE << Write(<<" ">> \o item.k \o <<"=", "\"">>, "attrib_key", node),
               Write(v, src, node),
               Write(<<"\"">>, "attrib_quote", node) >>

\* the loop body of lines 140-153, for one (k, v)
write_item(item, fmt, node) ==
    LET v == IF item.vq THEN item.v ELSE escape_attrib_html(item.v)
        src == IF item.vq THEN "qname_value" ELSE "attrib_value"
    IN IF item.k = v /\ fmt = "html"
       THEN << Write(<<" ">>, "attrib_bare", node), Write(v, src, node) >>
       ELSE << Write(<<" ">> \o item.k \o <<"=", "\"">>, "attrib_key", node),
               Write(v, src, node),
               Write(<<"\"">>, "attrib_quote", node) >>

\* position of the first c in text, 0 when there is none
IndexOf(text, c) ==
    IF Contains(text, c) THEN CHOOSE i \in 1..Len(text) :
        text[i] = c /\ \A j \in 1..(i - 1) : text[j] # c
    ELSE 0

\* lines 129-135: <<ok, namespace_uri, tag>>; ok is FALSE where the code raises
\* ValueError (no "{", or no "}" to split at)
split_qname(e) ==
    IF ~e.qname THEN <<TRUE, <<>>, e.tag>>
    ELSE IF e.tag # <<>> /\ Head(e.tag) = "{" /\ Contains(e.tag, "}")
    THEN LET rest == Tail(e.tag)
             i == IndexOf(rest, "}")
         IN <<TRUE, SubSeq(rest, 1, i - 1), From(rest, i)>>
    ELSE <<FALSE, <<>>, <<>>>>

\* bugs the two tests could have: the tag compared as written, not lowered
is_self_closed_cased(tag, fmt) == fmt = "xhtml" /\ tag \in HTML_EMPTY
has_end_tag_cased(tag) == tag \notin HTML_EMPTY

\* whether the element is written self-closed (line 156)
is_self_closed(tag, fmt) == fmt = "xhtml" /\ Lower(tag) \in HTML_EMPTY

\* whether the element gets a closing tag (line 167)
has_end_tag(tag) == Lower(tag) \notin HTML_EMPTY

RECURSIVE serialize_html(_, _, _)
RECURSIVE serialize_children(_, _, _, _)

\* `for e in elem: _serialize_html(write, e, format)`
serialize_children(children, i, fmt, node) ==
    IF i > Len(children) THEN <<>>
    ELSE serialize_html(children[i], fmt, Append(node, i))
         \o serialize_children(children, i + 1, fmt, node)

\* _serialize_html: the writes it makes, in order
serialize_html(e, fmt, node) ==
    LET text == e.text
        q == split_qname(e)
        namespace_uri == q[2]
        tag == q[3]
        items == sorted(e.attrib)
        body ==
          IF e.kind = "comment"
          THEN << Write(<<"<", "!", "-", "-">>, "markup", node),
                  Write(escape_cdata(text), "text", node),
                  Write(<<"-", "-", ">">>, "markup", node) >>
          ELSE IF e.kind = "pi"
          THEN << Write(<<"<", "?">>, "markup", node),
                  Write(escape_cdata(text), "text", node),
                  Write(<<"?", ">">>, "markup", node) >>
          ELSE IF e.kind = "none"
          THEN (IF text # <<>> THEN <<Write(escape_cdata(text), "text", node)>> ELSE <<>>)
               \o serialize_children(e.children, 1, fmt, node)
          ELSE IF ~q[1]
          THEN << Write(<<>>, "ValueError", node) >>
          ELSE
               << Write(<<"<">> \o tag, "start", node) >>
            \o Concat([i \in 1..Len(items) |-> write_item(items[i], fmt, node)])
            \o (IF namespace_uri # <<>>
                THEN << Write(<<" ", "x", "m", "l", "n", "s", "=", "\"">>, "markup", node),
                        Write(escape_attrib(namespace_uri), "xmlns", node),
                        Write(<<"\"">>, "markup", node) >>
                ELSE <<>>)
            \o (IF is_self_closed(tag, fmt)
                THEN << Write(<<" ", "/", ">">>, "self_close", node) >>
                ELSE
                     << Write(<<">">>, "start_end", node) >>
                  \o (IF text # <<>>
                      THEN (IF Lower(tag) \in RawTextTags
                            THEN << Write(text, "raw_text", node) >>
                            ELSE << Write(escape_cdata(text), "text", node) >>)
                      ELSE <<>>)
                  \o serialize_children(e.children, 1, fmt, node)
                  \o (IF has_end_tag(tag)
                      THEN << Write(<<"<", "/">> \o tag \o <<">">>, "end", node) >>
                      ELSE <<>>))
    IN body \o (IF e.tail # <<>>
                THEN << Write(escape_cdata(e.tail), "tail", node) >>
                ELSE <<>>)

\* _write_html: the list `data`; "".join(data) is Joined(data)
write_html(e, fmt) == serialize_html(e, fmt, <<>>)

Joined(d) == Concat([i \in 1..Len(d) |-> d[i].s])

Raises(d) == \E i \in 1..Len(d) : d[i].src = "ValueError"

----------------------------------------------------------------------------
(* Python values and dicts, for markdown/extensions/codehilite.py.         *)

\* a value of no fixed type: None, a bool, a str, a list, a callable
None == [t |-> "none"]
Bool(b) == [t |-> "bool", v |-> b]
StrV(s) == [t |-> "str", v |-> s]
ListV(l) == [t |-> "list", v |-> l]
Callable == [t |-> "callable"]
\* a keyword argument that is not passed
Absent == [t |-> "absent"]

\* bool(x)
Truthy(x) ==
    CASE x.t = "none" -> FALSE
      [] x.t = "bool" -> x.v
      [] x.t = "callable" -> TRUE
      [] OTHER -> x.v # <<>>

\* a dict is a function from its keys
DictOf(f) == [k \in {x \in DOMAIN f : f[x] # Absent} |-> f[k]]
DictGet(d, k, default) == IF k \in DOMAIN d THEN d[k] ELSE default
DictDel(d, k) == [x \in DOMAIN d \ {k} |-> d[x]]
DictSet(d, k, v) == [x \in DOMAIN d \cup {k} |-> IF x = k THEN v ELSE d[x]]

\* text.strip(c)
RECURSIVE LStrip(_, _)
LStrip(text, c) ==
    IF text # <<>> /\ Head(text) = c THEN LStrip(Tail(text), c) ELSE text
RECURSIVE RStrip(_, _)
RStrip(text, c) ==
    IF text # <<>> /\ text[Len(text)] = c
    THEN RStrip(SubSeq(text, 1, Len(text) - 1), c) ELSE text
Strip(text, c) == RStrip(LStrip(text, c), c)

\* text.split(c)
RECURSIVE Split(_, _)
Split(text, c) ==
    IF ~Contains(text, c) THEN <<text>>
    ELSE LET i == IndexOf(text, c)
         IN <<SubSeq(text, 1, i - 1)>> \o Split(From(text, i), c)

\* sep.join(lines)
RECURSIVE Join(_, _)
Join(lines, sep) ==
    IF lines = <<>> THEN <<>>
    ELSE IF Len(lines) = 1 THEN lines[1]
    ELSE lines[1] \o sep \o Join(Tail(lines), sep)

\* the regex classes \w, \s and [\w#.+-]
IsWord(c) == c \in Digits \cup LowerSet \cup UpperSet \cup {"_"}
IsSpace(c) == c \in {" ", "\t", "\n", "\r", "\f"}
IsLangChar(c) == IsWord(c) \/ c \in {"#", ".", "+", "-"}

\* where the longest run of characters satisfying Class ends, from position p
\* (positions count the characters consumed so far)
RunEnd(text, p, Class(_)) ==
    CHOOSE e \in p..Len(text) :
        /\ \A i \in (p + 1)..e : Class(text[i])
        /\ e = Len(text) \/ ~Class(text[e + 1])

----------------------------------------------------------------------------
(* parse_hl_lines                                                          *)

\* expr.split(): the runs of characters between white space
RECURSIVE SplitSpace(_)
SplitSpace(text) ==
    LET NotSpace(c) == ~IsSpace(c)
        s == RunEnd(text, 0, IsSpace)
        e == RunEnd(text, s, NotSpace)
    IN IF s = Len(text) THEN <<>>
       ELSE <<SubSeq(text, s + 1, e)>> \o SplitSpace(From(text, e))

\* int(tok) succeeds: an optional sign and digits
IsInt(tok) ==
    LET body == IF tok # <<>> /\ Head(tok) \in {"+", "-"} THEN Tail(tok) ELSE tok
    IN IsDecRun(body)

DigitValue(c) == Code(c) - Code("0")

RECURSIVE DecValue(_)
DecValue(ds) ==
    IF ds = <<>> THEN 0 ELSE 10 * DecValue(SubSeq(ds, 1, Len(ds) - 1)) + DigitValue(ds[Len(ds)])

\* int(tok)
IntOf(tok) ==
    IF Head(tok) = "-" THEN 0 - DecValue(Tail(tok))
    ELSE IF Head(tok) = "+" THEN DecValue(Tail(tok))
    ELSE DecValue(tok)

\* parse_hl_lines(expr), expr being None or a str
parse_hl_lines(expr) ==
    IF ~Truthy(expr) THEN <<>>
    ELSE LET toks == SplitSpace(expr.v)
         IN IF \A i \in 1..Len(toks) : IsInt(toks[i])
            THEN [i \in 1..Len(toks) |-> IntOf(toks[i])]
            ELSE <<>>

----------------------------------------------------------------------------
(* CodeHilite                                                              *)

\* lines 123-124: `linenums` is an alias taken when `linenos` is not given
init_linenos(o) ==
    IF "linenos" \notin DOMAIN o
    THEN DictSet(DictDel(o, "linenums"), "linenos", DictGet(o, "linenums", None))
    ELSE o

\* lines 125-126: `css_class` is an alias taken when `cssclass` is not given
init_cssclass(o) ==
    IF "cssclass" \notin DOMAIN o
    THEN DictSet(DictDel(o, "css_class"), "cssclass",
                 DictGet(o, "css_class",
                         StrV(<<"c", "o", "d", "e", "h", "i", "l", "i", "t", "e">>)))
    ELSE o

\* lines 127-131: wrapcode defaults to True, full is always False
init_wrapcode(o) ==
    DictSet(IF "wrapcode" \notin DOMAIN o THEN DictSet(o, "wrapcode", Bool(TRUE)) ELSE o,
            "full", Bool(FALSE))

\* CodeHilite.__init__(src, **options): the object's attributes
CodeHilite(src, kw) ==
    [src |-> src,
     lang |-> DictGet(kw, "lang", None),
     guess_lang |-> DictGet(kw, "guess_lang", Bool(TRUE)),
     use_pygments |-> DictGet(kw, "use_pygments", Bool(TRUE)),
     lang_prefix |-> DictGet(kw, "lang_prefix",
                             StrV(<<"l", "a", "n", "g", "u", "a", "g", "e", "-">>)),
     pygments_formatter |-> DictGet(kw, "pygments_formatter", StrV(<<"h", "t", "m", "l">>)),
     options |-> init_wrapcode(init_cssclass(init_linenos(
                    [k \in DOMAIN kw \ {"lang", "guess_lang", "use_pygments", "lang_prefix",
                                        "pygments_formatter"} |-> kw[k]])))]

\* (?:/\w+)* from position p: the positions where the groups end, p first
RECURSIVE GroupEnds(_, _)
GroupEnds(fl, p) ==
    IF p + 2 <= Len(fl) /\ fl[p + 1] = "/" /\ IsWord(fl[p + 2])
    THEN <<p>> \o GroupEnds(fl, RunEnd(fl, p + 1, IsWord))
    ELSE <<p>>

\* (?P<path>(?:/\w+)*[/ ])? from position p, the groups ending at es: where
\* the path ends, p when the group does not take part.  The groups are greedy;
\* when no "/" or " " follows the last group the search backs off that group and
\* takes its "/".
PathEndAfter(fl, p, es) ==
    IF es[Len(es)] + 1 <= Len(fl) /\ fl[es[Len(es)] + 1] \in {"/", " "}
    THEN es[Len(es)] + 1
    ELSE IF Len(es) >= 2 THEN es[Len(es) - 1] + 1
    ELSE p

PathEnd(fl, p) == PathEndAfter(fl, p, GroupEnds(fl, p))

HL_LINES == <<"h", "l", "_", "l", "i", "n", "e", "s", "=">>

\* (hl_lines=(?P<quot>"|')(?P<hl_lines>.*?)(?P=quot))? at position p: the
\* group hl_lines, None when the group does not take part
HlGroup(fl, p) ==
    IF /\ HasAt(fl, p + 1, HL_LINES)
       /\ p + 10 <= Len(fl)
       /\ fl[p + 10] \in {"\"", "'"}
       /\ Contains(From(fl, p + 10), fl[p + 10])
    THEN StrV(SubSeq(fl, p + 11, p + 10 + IndexOf(From(fl, p + 10), fl[p + 10]) - 1))
    ELSE None

\* the groups of a match: the marker ends at p0, the path at p1, the language at p2
MatchGroups(fl, hashbang, p0, p1, p2) ==
    [matched |-> TRUE, shebang |-> hashbang,
     path |-> SubSeq(fl, p0 + 1, p1), lang |-> SubSeq(fl, p1 + 1, p2),
     hl_lines |-> HlGroup(fl, RunEnd(fl, p2, IsSpace))]

MatchFromPath(fl, hashbang, p0, p1) ==
    MatchGroups(fl, hashbang, p0, p1, RunEnd(fl, p1, IsLangChar))

MatchFromMarker(fl, hashbang, p0) == MatchFromPath(fl, hashbang, p0, PathEnd(fl, p0))

IsColon(c) == c = ":"

\* (?:(?:^::+)|(?P<shebang>^[#]!)), the number of leading colons given
MatchMarker(fl, colons) ==
    IF colons >= 2 THEN MatchFromMarker(fl, FALSE, colons)
    ELSE IF HasAt(fl, 1, <<"#", "!">>) THEN MatchFromMarker(fl, TRUE, 2)
    ELSE [matched |-> FALSE, shebang |-> FALSE, path |-> <<>>, lang |-> <<>>,
          hl_lines |-> None]

\* c.search(fl): whether it matches, and the groups shebang, path, lang, hl_lines
header_search(fl) == MatchMarker(fl, RunEnd(fl, 0, IsColon))

\* a bug line 232 could have: the language kept in the case it was written in
header_lang_as_written(m) == StrV(m.lang)

\* line 232: self.lang = m.group('lang').lower()
header_lang(m) == StrV(Lower(m.lang))

\* lines 229-247: the object after the match m of the first line fl, `popped`
\* being the other lines
apply_header(self, fl, popped, m) ==
    [self EXCEPT
        !.lang = IF m.matched THEN header_lang(m) ELSE self.lang,
        !.options =
            IF m.matched
            THEN DictSet(IF self.options["linenos"] = None /\ m.shebang
                         THEN DictSet(self.options, "linenos", Bool(TRUE))
                         ELSE self.options,
                         "hl_lines", ListV(parse_hl_lines(m.hl_lines)))
            ELSE self.options,
        !.src = Strip(Join(IF m.matched /\ m.path = <<>> THEN popped ELSE <<fl>> \o popped,
                           <<"\n">>), "\n")]

\* lines 215-217: the first line and the others
split_header(self, lines) ==
    apply_header(self, Head(lines), Tail(lines), header_search(Head(lines)))

\* CodeHilite._parseHeader: the object afterwards
parseHeader(self) == split_header(self, Split(self.src, "\n"))

----------------------------------------------------------------------------
(* The Pygments highlighter, which codehilite.py imports.  Its functions   *)
(* are functions of their arguments; what they return is kept as the       *)
(* arguments they were given.                                              *)

TEXT == <<"t", "e", "x", "t">>
HTML == <<"h", "t", "m", "l">>

\* the lexer and formatter names the highlighter knows
LexerNames == { <<"p">>, TEXT }
FormatterNames == { HTML }

\* get_lexer_by_name(lang, **options) raises ClassNotFound, a ValueError
lexer_not_found(lang) == ~(lang.t = "str" /\ lang.v \in LexerNames)

\* guess_lexer(src, **options).aliases[0]
guessed_alias(src) == IF Contains(src, "p") THEN <<"p">> ELSE TEXT

\* a bug the fallback could have: "&" replaced last
fallback_escape_amp_last(src) ==
    Replace(Replace(Replace(Replace(src, "<", LT), ">", GT), "\"", QUOT), "&", AMP)

\* lines 176-179: the four replacements, "&" first
fallback_escape(src) ==
    Replace(Replace(Replace(Replace(src, "&", AMP), "<", LT), ">", GT), "\"", QUOT)

\* lines 166-172: the formatter, kept as what it was made from
make_formatter(self, lang_str) ==
    IF self.pygments_formatter.t = "str"
    THEN [name |-> IF self.pygments_formatter.v \in FormatterNames
                   THEN self.pygments_formatter.v ELSE HTML,
          lang_str |-> <<>>, options |-> self.options]
    ELSE [name |-> <<>>, lang_str |-> lang_str, options |-> self.options]

\* lines 152-173, the lexer's alias found: the object afterwards, what
\* highlight() returns (kept as its arguments) and the calls made
hilite_pygments(self, alias, lang) ==
    [self |-> [self EXCEPT !.lang = lang],
     result |-> [highlighted |-> TRUE, markup |-> <<>>, src |-> self.src,
                 lexer |-> [alias |-> alias, options |-> self.options],
                 formatter |-> make_formatter(self, self.lang_prefix.v \o lang.v)],
     calls |-> <<"get_lexer_by_name">>
               \o (IF ~lexer_not_found(self.lang) THEN <<>>
                   ELSE IF Truthy(self.guess_lang) THEN <<"guess_lexer">>
                   ELSE <<"get_lexer_by_name">>)
               \o (IF self.pygments_formatter.t = "str"
                   THEN <<"get_formatter_by_name">>
                        \o (IF self.pygments_formatter.v \in FormatterNames THEN <<>>
                            ELSE <<"get_formatter_by_name">>)
                   ELSE <<"pygments_formatter">>)
               \o <<"highlight">>]

\* lines 153-161: lexer.aliases[0]
lexer_alias(self) ==
    IF ~lexer_not_found(self.lang) THEN self.lang.v
    ELSE IF Truthy(self.guess_lang) THEN guessed_alias(self.src)
    ELSE TEXT

\* lines 180-187: the class attribute of the code element
class_str(classes) ==
    IF classes # <<>>
    THEN <<" ", "c", "l", "a", "s", "s", "=", "\"">> \o Join(classes, <<" ">>) \o <<"\"">>
    ELSE <<>>

\* lines 176-192: the markup built without the highlighter
hilite_fallback(self) ==
    [self |-> self,
     result |-> [highlighted |-> FALSE,
                 markup |-> <<"<", "p", "r", "e", " ", "c", "l", "a", "s", "s", "=", "\"">>
                            \o self.options["cssclass"].v
                            \o <<"\"", ">", "<", "c", "o", "d", "e">>
                            \o class_str(
                                  (IF Truthy(self.lang)
                                   THEN <<self.lang_prefix.v \o self.lang.v>> ELSE <<>>)
                                  \o (IF Truthy(self.options["linenos"])
                                      THEN << <<"l", "i", "n", "e", "n", "u", "m", "s">> >>
                                      ELSE <<>>))
                            \o <<">">> \o fallback_escape(self.src)
                            \o <<"\n", "<", "/", "c", "o", "d", "e", ">",
                                 "<", "/", "p", "r", "e", ">", "\n">>,
                 src |-> <<>>, lexer |-> <<>>, formatter |-> <<>>],
     calls |-> <<>>]

\* lines 151-192, the header parsed
hilite_body(self, pyg) ==
    IF pyg /\ Truthy(self.use_pygments)
    THEN hilite_pygments(self, lexer_alias(self),
                         IF ~Truthy(self.lang) THEN StrV(lexer_alias(self)) ELSE self.lang)
    ELSE hilite_fallback(self)

\* lines 146-149, the source stripped
hilite_header(self, sb) == IF self.lang = None /\ sb THEN parseHeader(self) ELSE self

\* CodeHilite.hilite(shebang=sb): the object afterwards, the str returned and
\* the highlighter calls made
hilite(self, sb, pyg) ==
    hilite_body(hilite_header([self EXCEPT !.src = Strip(self.src, "\n")], sb), pyg)

----------------------------------------------------------------------------
(* The Elements the serializer is given.                                   *)

\* the characters the escapers tell apart, and one of each class RE_AMP reads
EscAlphabet == {"&", "#", "x", "1", ";", "<", ">", "\""}

P == <<"p">>
BR == <<"b", "r">>
SCRIPT == <<"s", "c", "r", "i", "p", "t">>

Leaf(tag, text, tail) == Element("element", FALSE, tag, <<>>, text, tail, <<>>)

\* one element carrying one str over the whole alphabet: as text, as raw text,
\* as tail, as an attribute value
RichElement(s) ==
    { Leaf(P, s, <<>>), Leaf(SCRIPT, s, <<>>), Leaf(P, <<>>, s),
      Element("element", FALSE, P, <<[k |-> <<"k">>, v |-> s, vq |-> FALSE]>>,
              <<>>, <<>>, <<>>) }

ShortTexts == { <<>>, <<"a", ">">>, <<"<", "&">> }
Tails == { <<>>, <<">">> }

\* children: leaves, one of them with a child of its own
ChildElements ==
    {Leaf(t, s, tl) : t \in {P, BR, <<"B", "R">>}, s \in {<<>>, <<"a", ">">>}, tl \in Tails}
    \cup { Element("element", FALSE, P, <<>>, <<>>, <<>>, <<Leaf(BR, <<"<">>, <<>>)>>),
           Leaf(SCRIPT, <<"<", "/", "b", "r", ">">>, <<>>) }

QNameTags == { <<"{", "u", "\n", "}", "b", "r">>, <<"{", "}", "p">>, <<"b", "r">>,
               <<"{", "u">> }

\* character references of each form RE_AMP leaves alone, and near misses
References == { <<"&", "#", "x", "1", "f", ";">>, <<"&", "#", "X", "A", ";">>,
                <<"&", "#", "1", "0", ";">>, <<"&", "a", "m", "p", ";">>,
                <<"&", "#", "x", "g", ";">>, <<"&", "#", "x", ";">>, <<"&", "l", "t">> }

\* one element carrying a reference and then the str s
ReferenceElement(s) ==
    UNION { { Leaf(P, r \o s, <<>>), Leaf(P, <<>>, r \o s),
              Element("element", FALSE, P, <<[k |-> <<"k">>, v |-> r \o s, vq |-> FALSE]>>,
                      <<>>, <<>>, <<>>) } : r \in References }

\* elements with the children cs, of every kind of tag
TreeElement(cs) ==
    {Element("element", FALSE, t, <<>>, s, tl, cs) :
        t \in {P, BR, <<"B", "R">>, <<"i", "m", "g">>}, s \in ShortTexts, tl \in Tails}
    \cup {Element(k, FALSE, <<>>, <<>>, s, tl, IF k = "none" THEN cs ELSE <<>>) :
        k \in {"comment", "pi", "none"}, s \in ShortTexts, tl \in Tails}
    \cup {Element("element", TRUE, t, <<>>, s, <<>>, cs) : t \in QNameTags, s \in ShortTexts}

\* "&" is a key the attr_list syntax accepts
AttrKeys == { <<"k">>, <<"a">>, <<"&">> }
AttrValues == { <<"k">>, <<"a">>, <<"&">>, <<"a", "\n", "b">>, <<"<", "\"", ">">> }
AttrItems == {[k |-> k, v |-> v, vq |-> q] : k \in AttrKeys, v \in AttrValues, q \in BOOLEAN}

UniqueKeys(items) ==
    \A i, j \in 1..Len(items) : i # j => items[i].k # items[j].k

\* elements with the attributes a
AttrElement(a) == {Element("element", FALSE, t, a, <<>>, <<>>, <<>>) : t \in {P, BR}}

----------------------------------------------------------------------------
(* The serializer's public functions.                                      *)

IdleSerializer == elem = <<>> /\ format = "none" /\ data = <<>>

IdleCodeHilite ==
    /\ pygments = FALSE /\ kwargs = <<>> /\ shebang = FALSE
    /\ code = <<>> /\ result = <<>> /\ calls = <<>>

IdleUnescape == plain = <<>> /\ block_text = <<>> /\ unescaped = <<>>

IdleTreeprocessor == root = <<>> /\ config = <<>> /\ stash = <<>> /\ IdleUnescape

InitSerializer ==
    /\ pc = "element"
    /\ \/ \E n \in 0..MaxLen : \E s \in [1..n -> EscAlphabet] : elem \in RichElement(s)
       \/ \E n \in 0..1 : \E s \in [1..n -> EscAlphabet] : elem \in ReferenceElement(s)
       \/ \E n \in 0..MaxChildren : \E cs \in [1..n -> ChildElements] :
              elem \in TreeElement(cs)
       \/ \E n \in 1..MaxAttrs : \E a \in [1..n -> AttrItems] :
              UniqueKeys(a) /\ elem \in AttrElement(a)
    /\ format = "none"
    /\ data = <<>>
    /\ IdleCodeHilite
    /\ IdleTreeprocessor

Serialize(fmt) ==
    /\ pc = "element"
    /\ format' = fmt
    /\ \E d \in {write_html(elem, fmt)} :
          IF Raises(d)
          THEN pc' = "raised" /\ data' = <<>>
          ELSE pc' = "serialized" /\ data' = d
    /\ UNCHANGED <<elem, codehilite_vars, treeprocessor_vars>>

to_html_string == Serialize("html")

to_xhtml_string == Serialize("xhtml")

NextSerializer == to_html_string \/ to_xhtml_string

SpecSerializer == InitSerializer /\ [][NextSerializer]_vars

----------------------------------------------------------------------------
(* The blocks and keyword arguments CodeHilite is given.                   *)

Markers == { <<>>, <<":">>, <<":", ":">>, <<":", ":", ":">>, <<"#", "!">>, <<"#">> }
MidAlphabet == {"/", " ", "p", "P", "+"}
Bodies == { <<>>, <<"\n", "<", "&", "l", "t", ";", ">", "\"", "\n">> }

\* first lines whose path has two groups
LongMids == { <<"/", "p", "/", "p">>, <<"/", "p", "/", "P", " ">>,
              <<"/", "p", "/", "p", "/", "P">>, <<"/", "p", " ", "P", "+">> }

\* a first line's hl_lines part
HlParts == { <<>>,
             HL_LINES \o <<"\"", "1", " ", "2", "\"">>,
             <<" ">> \o HL_LINES \o <<"'", "2", "'", "x">>,
             HL_LINES \o <<"\"", "1", " ", "x", "\"">>,
             HL_LINES \o <<"\"", "1", "'">>,
             HL_LINES \o <<"\"", "\"">> }

\* the rest of the keyword arguments: the highlighter off; the defaults; guessing
\* off and a callable formatter; an unknown formatter and both class options
Modes == { [use_pygments |-> Bool(FALSE), lang_prefix |-> StrV(<<"l", "-">>)],
           [use_pygments |-> Bool(TRUE)],
           [guess_lang |-> Bool(FALSE), pygments_formatter |-> Callable,
            css_class |-> StrV(<<"c">>)],
           [use_pygments |-> Bool(FALSE), pygments_formatter |-> StrV(<<"x">>),
            cssclass |-> StrV(<<"k">>), css_class |-> StrV(<<"c">>)] }

InitCodeHilite ==
    /\ pc = "kwargs"
    /\ pygments \in BOOLEAN
    /\ \/ \E n \in 0..MaxHeader : \E mid \in [1..n -> MidAlphabet] \cup LongMids :
          \E marker \in Markers, body \in Bodies,
             kw \in { [use_pygments |-> Bool(FALSE)],
                      [use_pygments |-> Bool(TRUE), linenums |-> Bool(FALSE)] } :
              kwargs = [src |-> marker \o mid \o body, options |-> kw]
       \/ \E marker \in { <<":", ":">>, <<"#", "!">> },
             mid \in { <<>>, <<"P">>, <<"/", "p", " ">>, <<" ">> },
             hl \in HlParts, nl \in { <<>>, <<"\n">> }, body \in Bodies,
             lang \in { Absent, StrV(<<>>), StrV(<<"p">>) },
             linenos \in { Absent, None, Bool(FALSE) },
             linenums \in { Absent, StrV(<<"t", "a", "b", "l", "e">>) },
             hl_lines \in { Absent, ListV(<<3>>) },
             mode \in Modes :
              kwargs = [src |-> nl \o marker \o mid \o hl \o body,
                        options |-> DictOf([lang |-> lang, linenos |-> linenos,
                                            linenums |-> linenums, hl_lines |-> hl_lines]
                                           @@ mode)]
    /\ shebang = FALSE
    /\ code = <<>>
    /\ result = <<>>
    /\ calls = <<>>
    /\ IdleSerializer
    /\ IdleTreeprocessor

\* code = CodeHilite(src, **options)
CodeHilite_init ==
    /\ pc = "kwargs"
    /\ code' = CodeHilite(kwargs.src, kwargs.options)
    /\ pc' = "constructed"
    /\ UNCHANGED <<pygments, kwargs, shebang, result, calls, serializer_vars,
                   treeprocessor_vars>>

\* code.hilite(shebang=sb)
CodeHilite_hilite ==
    /\ pc = "constructed"
    /\ \E sb \in BOOLEAN : \E r \in {hilite(code, sb, pygments)} :
          /\ shebang' = sb
          /\ code' = r.self
          /\ result' = r.result
          /\ calls' = r.calls
    /\ pc' = "hilited"
    /\ UNCHANGED <<pygments, kwargs, serializer_vars, treeprocessor_vars>>

NextCodeHilite == CodeHilite_init \/ CodeHilite_hilite

SpecCodeHilite == InitCodeHilite /\ [][NextCodeHilite]_vars

----------------------------------------------------------------------------
(* HiliteTreeprocessor.  Python's dicts are objects: `heap` holds the dicts *)
(* alive during a run and a reference is a position in it; self.config is  *)
(* the dict at position 1.                                                 *)

IntV(n) == [t |-> "int", v |-> n]

\* text.replace(old, new): the occurrences from the left, not overlapping
RECURSIVE ReplaceStr(_, _, _)
ReplaceStr(text, old, new) ==
    IF text = <<>> THEN <<>>
    ELSE IF HasAt(text, 1, old) THEN new \o ReplaceStr(From(text, Len(old)), old, new)
    ELSE <<Head(text)>> \o ReplaceStr(Tail(text), old, new)

\* a bug lines 260-264 could have: "&amp;" replaced first
code_unescape_amp_first(s) ==
    ReplaceStr(ReplaceStr(ReplaceStr(s, AMP, <<"&">>), LT, <<"<">>), GT, <<">">>)

\* HiliteTreeprocessor.code_unescape
code_unescape(s) ==
    ReplaceStr(ReplaceStr(ReplaceStr(s, LT, <<"<">>), GT, <<">">>), AMP, <<"&">>)

\* a bug line 272 could have: local_config = self.config, the same dict
dict_alias(heap, r) == [heap |-> heap, ref |-> r]

\* d.copy(): a new dict with the items of the dict at r
dict_copy(heap, r) == [heap |-> Append(heap, heap[r]), ref |-> Len(heap) + 1]

\* d.pop(k, default) on the dict at r: the heap afterwards
dict_pop(heap, r, k) == [heap EXCEPT ![r] = DictDel(heap[r], k)]

\* the control characters util.STX and util.ETX
STX == "STX"
ETX == "ETX"

DigitChars == <<"0", "1", "2", "3", "4", "5", "6", "7", "8", "9">>

\* "%d" % n
RECURSIVE Decimal(_)
Decimal(n) == IF n < 10 THEN <<DigitChars[n + 1]>>
              ELSE Decimal(n \div 10) \o <<DigitChars[(n % 10) + 1]>>

\* the placeholder token of the stash entry with index n
get_placeholder(n) == <<STX>> \o <<"w", "z", "x", "h", "z", "d", "k", ":">> \o Decimal(n) \o <<ETX>>

\* htmlStash.store(html): the stash afterwards and the placeholder returned
store(entries, html) ==
    [stash |-> Append(entries, html), placeholder |-> get_placeholder(Len(entries))]

\* a stash entry that is a str of markup
Html(markup) ==
    [highlighted |-> FALSE, markup |-> markup, src |-> <<>>, lexer |-> <<>>,
     formatter |-> <<>>]

PRE == <<"p", "r", "e">>
CODE == <<"c", "o", "d", "e">>

\* line 271: len(block) == 1 and block[0].tag == 'code'
is_code_block(block) ==
    /\ block.tag = PRE
    /\ Len(block.children) = 1
    /\ block.children[1].tag = CODE

\* a bug lines 281-285 could have: line 283 left out, the block still a `pre`
stash_block_not_retagged(heap, stored) ==
    [elem |-> Element("element", FALSE, <<"p", "r", "e">>, <<>>, stored.placeholder, <<>>, <<>>),
     st |-> [heap |-> heap, stash |-> stored.stash]]

\* lines 279-285: the fragment stored, the block cleared, retagged and given
\* the placeholder
stash_block(heap, stored) ==
    [elem |-> Element("element", FALSE, P, <<>>, stored.placeholder, <<>>, <<>>),
     st |-> [heap |-> heap, stash |-> stored.stash]]

\* lines 273-278: CodeHilite(code_unescape(text), tab_length=..., style=...,
\* **local_config), the style already popped from local_config
construct_block(block, local_config, style) ==
    CodeHilite(code_unescape(block.children[1].text),
               DictSet(DictSet(local_config, "tab_length", IntV(4)), "style", style))

\* lines 276-285, local_config being the dict at lc.ref
pop_style(block, st, lc, pyg) ==
    stash_block(dict_pop(lc.heap, lc.ref, "pygments_style"),
                store(st.stash,
                      hilite(construct_block(
                                 block,
                                 DictDel(lc.heap[lc.ref], "pygments_style"),
                                 DictGet(lc.heap[lc.ref], "pygments_style",
                                         StrV(<<"d", "e", "f", "a", "u", "l", "t">>))),
                             TRUE, pyg).result))

\* lines 272-285: the body of the loop for one block
hilite_block(block, st, pyg) == pop_style(block, st, dict_copy(st.heap, 1), pyg)

with_children(e, r) == [elem |-> [e EXCEPT !.children = r.elems], st |-> r.st]

with_first(e, r) == [elems |-> <<e>> \o r.elems, st |-> r.st]

\* lines 269-270: root.iter('pre') in document order.  The iterator reads an
\* element's children after the loop body ran for it, so nothing below a
\* cleared block is visited.
RECURSIVE run_iter(_, _, _)
RECURSIVE run_children(_, _, _)
run_rest(first, rest, pyg) == with_first(first.elem, run_children(rest, first.st, pyg))

run_children(cs, st, pyg) ==
    IF cs = <<>> THEN [elems |-> <<>>, st |-> st]
    ELSE run_rest(run_iter(Head(cs), st, pyg), Tail(cs), pyg)

run_iter(e, st, pyg) ==
    IF is_code_block(e) THEN hilite_block(e, st, pyg)
    ELSE with_children(e, run_children(e.children, st, pyg))

\* HiliteTreeprocessor.run(root): the tree, self.config and the stash afterwards
run(tree, cfg, entries, pyg) == run_iter(tree, [heap |-> <<cfg>>, stash |-> entries], pyg)

----------------------------------------------------------------------------
(* The documents and configurations the treeprocessor is given.            *)

\* most children of the document's root
MaxBlocks == 2

\* the text of a code element, escaped as the block parser leaves it
CodeTexts == { <<"#", "!", "p", "\n", "x">>, <<":", ":", ":", "P", " ", "h", "l", "_", "l", "i", "n", "e", "s", "=", "\"", "1", "\"", "\n", "&", "l", "t", ";", "b", "&", "g", "t", ";">>, <<"x">>, <<"&", "a", "m", "p", ";", "l", "t", ";">>, <<"#", "!", "/", "p", " ", "\n", "y">> }

Block(text, tail) ==
    Element("element", FALSE, PRE, <<>>, <<>>, tail, <<Leaf(CODE, text, <<>>)>>)

\* the children of the root: code blocks; a `pre` with an attribute and a tail;
\* a `pre` with two children, one of them a code block of its own; a `pre` whose
\* child is not a `code`; a code block below a `p`; a `pre` with no child
RootChildren ==
    { Block(s, <<>>) : s \in CodeTexts }
    \cup { Element("element", FALSE, PRE, <<[k |-> <<"k">>, v |-> <<"a">>, vq |-> FALSE]>>,
                   <<>>, <<"t">>, <<Leaf(CODE, <<"#", "!", "p", "\n", "x">>, <<>>)>>),
           Element("element", FALSE, PRE, <<>>, <<>>, <<>>,
                   <<Leaf(CODE, <<"x">>, <<>>), Block(<<":", ":", ":", "P", " ", "h", "l", "_", "l", "i", "n", "e", "s", "=", "\"", "1", "\"", "\n", "&", "l", "t", ";", "b", "&", "g", "t", ";">>, <<"t">>)>>),
           Element("element", FALSE, PRE, <<>>, <<>>, <<>>, <<Leaf(P, <<"x">>, <<>>)>>),
           Element("element", FALSE, P, <<>>, <<"x">>, <<>>, <<Block(<<"#", "!", "p", "\n", "x">>, <<>>)>>),
           Leaf(PRE, <<"x">>, <<>>) }

DIV == <<"d", "i", "v">>

\* what getConfigs() gives: the defaults of lines 293-318, some of them set
Configs ==
    { DictOf([linenums |-> linenums,
              guess_lang |-> Bool(TRUE),
              css_class |-> StrV(<<"c", "o", "d", "e", "h", "i", "l", "i", "t", "e">>),
              pygments_style |-> StrV(style),
              noclasses |-> Bool(FALSE),
              use_pygments |-> Bool(use),
              lang_prefix |-> StrV(<<"l", "a", "n", "g", "u", "a", "g", "e", "-">>),
              pygments_formatter |-> StrV(HTML),
              hl_lines |-> hl_lines]) :
        linenums \in {None, Bool(FALSE)},
        style \in {<<"d", "e", "f", "a", "u", "l", "t">>, <<"m", "o", "n", "o", "k", "a", "i">>},
        use \in BOOLEAN,
        hl_lines \in {Absent, ListV(<<3>>)} }

InitRun ==
    /\ pc = "tree"
    /\ pygments \in BOOLEAN
    /\ \/ \E n \in 0..MaxBlocks : \E cs \in [1..n -> RootChildren] :
             root = Element("element", FALSE, DIV, <<>>, <<>>, <<>>, cs)
       \/ root \in RootChildren
    /\ config \in Configs
    /\ stash \in { <<>>, <<Html(<<"<", "h", "r", ">">>)>> }
    /\ kwargs = <<>> /\ shebang = FALSE /\ code = <<>> /\ result = <<>> /\ calls = <<>>
    /\ IdleSerializer
    /\ IdleUnescape

\* hiliter.run(root), the placeholders left in the tree; and once more
HiliteTreeprocessor_run ==
    /\ pc \in {"tree", "ran"}
    /\ \E r \in {run(root, config, stash, pygments)} :
          /\ root' = r.elem
          /\ config' = r.st.heap[1]
          /\ stash' = r.st.stash
    /\ pc' = IF pc = "tree" THEN "ran" ELSE "reran"
    /\ UNCHANGED <<serializer_vars, codehilite_vars, plain, block_text, unescaped>>

NextRun == HiliteTreeprocessor_run

SpecRun == InitRun /\ [][NextRun]_vars

----------------------------------------------------------------------------
(* The texts code_unescape is given.                                       *)

\* most pieces of a text
MaxPieces == 3

\* what a text is made of: the characters that are escaped, the three
\* entities, an entity that is not decoded, ends of entities, a letter
Pieces == { <<"&">>, <<"<">>, <<">">>, LT, GT, AMP, QUOT, <<"l", "t", ";">>, <<"a", "m", "p", ";">>, <<"x">> }

\* the escaping of a code block's text by the block parser: "&", then "<", ">"
code_escape(s) ==
    ReplaceStr(ReplaceStr(ReplaceStr(s, <<"&">>, AMP), <<"<">>, LT), <<">">>, GT)

\* either the source text of a code block, which the parser escapes, or any
\* text of a code element
InitUnescape ==
    /\ \E n \in 0..MaxPieces : \E ps \in [1..n -> Pieces] :
          \/ pc = "plain" /\ plain = Concat(ps) /\ block_text = <<>>
          \/ pc = "block_text" /\ plain = <<>> /\ block_text = Concat(ps)
    /\ unescaped = <<>>
    /\ root = <<>> /\ config = <<>> /\ stash = <<>>
    /\ IdleSerializer
    /\ IdleCodeHilite

\* the block parser leaves the escaped block_text in the code element
CodeBlock_escape ==
    /\ pc = "plain"
    /\ block_text' = code_escape(plain)
    /\ pc' = "escaped"
    /\ UNCHANGED <<serializer_vars, codehilite_vars, root, config, stash, plain, unescaped>>

\* self.code_unescape(block[0].block_text)
HiliteTreeprocessor_code_unescape ==
    /\ pc \in {"escaped", "block_text"}
    /\ unescaped' = code_unescape(block_text)
    /\ pc' = IF pc = "escaped" THEN "unescaped" ELSE "decoded"
    /\ UNCHANGED <<serializer_vars, codehilite_vars, root, config, stash, plain, block_text>>

NextUnescape == CodeBlock_escape \/ HiliteTreeprocessor_code_unescape

SpecUnescape == InitUnescape /\ [][NextUnescape]_vars

----------------------------------------------------------------------------
(* What the serializer claims are stated over.                             *)

\* the element at a path of child positions
RECURSIVE NodeAt(_, _)
NodeAt(e, path) ==
    IF path = <<>> THEN e ELSE NodeAt(e.children[Head(path)], Tail(path))

\* a is a proper prefix of b
IsAbove(a, b) == Len(a) < Len(b) /\ SubSeq(b, 1, Len(a)) = a

\* the tag name an element is written with
WrittenTag(e) == IF e.qname THEN From(e.tag, IndexOf(e.tag, "}")) ELSE e.tag

\* the element is a void element
IsVoid(e) == e.kind = "element" /\ Lower(WrittenTag(e)) \in HTML_EMPTY

\* the output string
Output == Joined(data)

\* where write number i starts in the output (0-based)
Offset(i) == Len(Joined(SubSeq(data, 1, i - 1)))

\* the writes made for text, tail and attribute values
FromContent == {"text", "raw_text", "tail", "attrib_value", "qname_value"}
FromEscaped == {"text", "tail", "attrib_value"}
FromAttrib == {"attrib_value", "qname_value"}

\* the nodes an opening tag was written for
Started == {data[i].node : i \in {j \in 1..Len(data) : data[j].src = "start"}}

\* C1: once serialized, no ">" of a text or tail outside script/style reaches
\* the output bare: the writes made for escaped text and tails hold no ">".
C1_TextGtEscaped ==
    pc = "serialized" =>
        \A i \in 1..Len(data) :
            data[i].src \in {"text", "tail"} => ~Contains(data[i].s, ">")

\* the escaping law over the writes whose src is in `from`, attribute values in `att`
EscapingLaw(from, att) ==
    \A i \in 1..Len(data) :
        /\ data[i].src \in from =>
              /\ ~Contains(data[i].s, "<")
              /\ \A j \in 1..Len(data[i].s) :
                    data[i].s[j] = "&" => EntityFollows(Output, Offset(i) + j)
        /\ data[i].src \in att =>
              /\ ~Contains(data[i].s, "\"")
              /\ ~Contains(data[i].s, ">")

\* C2 as claimed: in the output every "&" that comes from a text, tail or
\* attribute value starts a character reference, none of them leaves a bare "<",
\* and no attribute value leaves a bare double quote or ">".
C2_Original == pc = "serialized" => EscapingLaw(FromContent, FromAttrib)

\* C2 as amended: the same, for every text outside script/style elements, every
\* tail and every str (not QName) attribute value.
C2_RoundTripEscaping == pc = "serialized" => EscapingLaw(FromEscaped, {"attrib_value"})

\* a text with a reference to keep and a bare "&" was serialized
C2_Witness ==
    /\ pc = "serialized"
    /\ elem.text = <<"&", "1", ";", "&">>
    /\ elem.tag = P
    /\ Output = <<"<", "p", ">">> \o <<"&", "1", ";">> \o AMP \o <<"<", "/", "p", ">">>

\* the writes made for node n after its opening tag, up to the first that is
\* not part of an attribute or of the xmlns declaration
AfterAttributes(n) ==
    LET i == CHOOSE j \in 1..Len(data) : data[j].node = n /\ data[j].src = "start"
        rest == {j \in (i + 1)..Len(data) :
                    ~(data[j].node = n /\ data[j].src \in
                        {"attrib_bare", "attrib_key", "attrib_value", "qname_value",
                         "attrib_quote", "markup", "xmlns"})}
    IN IF rest = {} THEN Write(<<>>, "nothing", n)
       ELSE data[CHOOSE j \in rest : \A k \in rest : j <= k]

\* C3: for every void element written, whatever text or children it has, the
\* HTML output holds no closing tag written for it, and the XHTML output closes
\* its opening tag with " />" and holds neither ">" nor a closing tag for it.
C3_VoidElementLaw ==
    pc = "serialized" =>
        \A n \in Started :
            IsVoid(NodeAt(elem, n)) =>
                LET tag == WrittenTag(NodeAt(elem, n))
                    mine == {i \in 1..Len(data) : data[i].node = n}
                IN /\ \A i \in mine :
                        /\ data[i].src # "end"
                        /\ data[i].src \notin {"raw_text", "text", "tail"} =>
                              data[i].s # <<"<", "/">> \o tag \o <<">">>
                   /\ format = "xhtml" =>
                        /\ AfterAttributes(n) = Write(<<" ", "/", ">">>, "self_close", n)
                        /\ \A i \in mine : data[i].src # "start_end"

\* a void element with an upper-case tag, text and a child was serialized to XHTML
C3_Witness ==
    /\ pc = "serialized"
    /\ format = "xhtml"
    /\ elem.tag = <<"B", "R">>
    /\ elem.text # <<>>
    /\ elem.children # <<>>
    /\ elem.tail = <<>>
    /\ Output = <<"<", "B", "R", " ", "/", ">">>

\* C4: in HTML mode nothing is written for a void element's text and nothing
\* for its children.
C4_HtmlVoidCarriesNothing ==
    (pc = "serialized" /\ format = "html") =>
        \A n \in Started :
            IsVoid(NodeAt(elem, n)) =>
                \A i \in 1..Len(data) :
                    /\ data[i].node = n => data[i].src \notin {"text", "raw_text"}
                    /\ ~IsAbove(n, data[i].node)

\* the attribute (k, val) was written for node n in the boolean form ` k`
WrittenBare(n, k) ==
    \E i \in 1..(Len(data) - 1) :
        /\ data[i] = Write(<<" ">>, "attrib_bare", n)
        /\ data[i + 1].node = n /\ data[i + 1].s = k
        /\ data[i + 1].src \in FromAttrib

\* the attribute was written for node n in the form ` k="val"`
WrittenQuoted(n, k, val) ==
    \E i \in 1..(Len(data) - 2) :
        /\ data[i] = Write(<<" ">> \o k \o <<"=", "\"">>, "attrib_key", n)
        /\ data[i + 1].node = n /\ data[i + 1].s = val
        /\ data[i + 1].src \in FromAttrib
        /\ data[i + 2] = Write(<<"\"">>, "attrib_quote", n)

\* the value as it is written: a str escaped, a QName's text as it is
WrittenValue(item) == IF item.vq THEN item.v ELSE escape_attrib_html(item.v)

\* the boolean attribute law, `same` saying when key and value count as equal
BooleanLaw(same(_)) ==
    pc = "serialized" =>
        \A n \in Started :
            \A m \in 1..Len(NodeAt(elem, n).attrib) :
                LET item == NodeAt(elem, n).attrib[m]
                IN IF same(item)
                   THEN /\ format = "html" =>
                              WrittenBare(n, item.k) /\ ~WrittenQuoted(n, item.k, item.k)
                        /\ format = "xhtml" =>
                              WrittenQuoted(n, item.k, item.k) /\ ~WrittenBare(n, item.k)
                   ELSE WrittenQuoted(n, item.k, WrittenValue(item))

KeyIsValue(item) == item.k = item.v
KeyIsWrittenValue(item) == item.k = WrittenValue(item)

\* C5 as claimed: an attribute whose key equals its value is written ` key` in
\* HTML and ` key="key"` in XHTML; any other as ` key="value"` in both.
C5_Original == BooleanLaw(KeyIsValue)

\* C5 as amended: the same, with the key compared to the value as written
\* (a str value after escaping, a QName value's text).
C5_BooleanAttributeLaw == BooleanLaw(KeyIsWrittenValue)

\* an element with a boolean attribute and an ordinary one was serialized to HTML
C5_Witness ==
    /\ pc = "serialized"
    /\ format = "html"
    /\ elem.attrib = << [k |-> <<"k">>, v |-> <<"k">>, vq |-> FALSE],
                        [k |-> <<"a">>, v |-> <<"k">>, vq |-> FALSE] >>
    /\ elem.tag = P
    /\ Output = <<"<", "p", " ", "a", "=", "\"", "k", "\"", " ", "k", ">", "<", "/", "p", ">">>

\* C6: in XHTML mode a newline of an attribute value is written as "&#10;":
\* the value is written as _escape_attrib gives it, with no newline left.
C6_XhtmlEscapesNewline ==
    (pc = "serialized" /\ format = "xhtml") =>
        \A n \in Started :
            \A m \in 1..Len(NodeAt(elem, n).attrib) :
                LET item == NodeAt(elem, n).attrib[m]
                IN ~item.vq => WrittenQuoted(n, item.k, escape_attrib(item.v))

----------------------------------------------------------------------------
(* What the CodeHilite claims are stated over.                             *)

\* the step hilite() takes: `code` is the object before it, code' after it
HiliteStep == pc = "constructed" /\ pc' = "hilited"

\* the first line of a block and the lines after it
FirstLine(self) == Head(Split(Strip(self.src, "\n"), "\n"))
OtherLines(self) == Tail(Split(Strip(self.src, "\n"), "\n"))

\* where the marker of a first line ends: two or more colons or "#!"; 0 when
\* the line has no marker
MarkerEnd(fl) ==
    IF RunEnd(fl, 0, IsColon) >= 2 THEN RunEnd(fl, 0, IsColon)
    ELSE IF HasAt(fl, 1, <<"#", "!">>) THEN 2
    ELSE 0

\* s is one or more `/segment` groups
IsSegments(s) ==
    /\ s # <<>>
    /\ s[1] = "/"
    /\ \A i \in 1..Len(s) : IsWord(s[i]) \/ (s[i] = "/" /\ i < Len(s) /\ IsWord(s[i + 1]))

\* where a path segment after the marker can end: groups, then "/" or a space
PathEnds(fl) ==
    { q \in (MarkerEnd(fl) + 1)..Len(fl) :
        fl[q] \in {"/", " "} /\ IsSegments(SubSeq(fl, MarkerEnd(fl) + 1, q - 1)) }

Longest(S) == CHOOSE x \in S : \A y \in S : y <= x

\* the language token read from position p
Token(fl, p) == SubSeq(fl, p + 1, RunEnd(fl, p, IsLangChar))

AsWritten(token) == token

\* what hilite() does with the first line fl when no language was supplied, the
\* language being Lang(token)
HeaderLaw(fl, Lang(_)) ==
    /\ (MarkerEnd(fl) > 0 /\ PathEnds(fl) = {} /\ Token(fl, MarkerEnd(fl)) # <<>>)
          => /\ code'.lang = StrV(Lang(Token(fl, MarkerEnd(fl))))
             /\ code'.src = Strip(Join(OtherLines(code), <<"\n">>), "\n")
    /\ (MarkerEnd(fl) > 0 /\ PathEnds(fl) # {} /\ Token(fl, Longest(PathEnds(fl))) # <<>>)
          => /\ code'.lang = StrV(Lang(Token(fl, Longest(PathEnds(fl)))))
             /\ code'.src = Strip(code.src, "\n")
    /\ MarkerEnd(fl) = 0
          => /\ code'.src = Strip(code.src, "\n")
             /\ code'.options = code.options
    /\ (code'.options["linenos"] # code.options["linenos"])
          <=> (HasAt(fl, 1, <<"#", "!">>) /\ code.options["linenos"] = None)
    /\ (code'.options["linenos"] # code.options["linenos"])
          => code'.options["linenos"] = Bool(TRUE)

\* C7 as stated: with no language supplied, a first line that is a marker and a
\* language token gives the token as the language and is removed; with a path
\* segment the language is the token and the line stays; line numbering is
\* switched on exactly when "#!" matched and the option was None.
C7_Original ==
    [][(HiliteStep /\ code.lang = None /\ shebang') => HeaderLaw(FirstLine(code), AsWritten)]_vars

\* C7: with no language supplied, a first line that is a marker and a language
\* token gives the token in lower case as the language and is removed from
\* the source; with a path segment the language is the lower-cased token and
\* the line stays; a line with no marker changes nothing but the stripped
\* newlines; and line numbering is switched on exactly when "#!" matched and
\* the option was None.
C7_HeaderLowered ==
    [][(HiliteStep /\ code.lang = None /\ shebang') => HeaderLaw(FirstLine(code), Lower)]_vars

C7_Witness ==
    /\ pc = "hilited"
    /\ shebang
    /\ kwargs.src = <<"#", "!", "P", "\n", "<", "&", "l", "t", ";", ">", "\"", "\n">>
    /\ kwargs.options = [use_pygments |-> Bool(FALSE)]
    /\ code.lang = StrV(<<"p">>)
    /\ code.src = <<"<", "&", "l", "t", ";", ">", "\"">>
    /\ code.options["linenos"] = Bool(TRUE)

\* the entity a character is replaced by
Entity(c) ==
    CASE c = "&" -> AMP
      [] c = "<" -> LT
      [] c = ">" -> GT
      [] c = "\"" -> QUOT
      [] OTHER -> <<c>>

\* each character of the source replaced once
Escaped(src) == Concat([i \in 1..Len(src) |-> Entity(src[i])])

\* no "<", ">" or double quote is left
NoneRaw(text) == \A i \in 1..Len(text) : text[i] \notin {"<", ">", "\""}

\* the classes of the code element
ClassNames ==
    (IF Truthy(code.lang) THEN <<code.lang_prefix.v \o code.lang.v>> ELSE <<>>)
    \o (IF Truthy(code.options["linenos"]) THEN <<<<"l", "i", "n", "e", "n", "u", "m",
        "s">>>> ELSE <<>>)

\* C8: with the highlighter disabled or unavailable, hilite() makes no
\* highlighter call and returns the source, each "&", "<", ">" and double quote
\* replaced once by its entity, inside <pre class="{cssclass}"><code ...>, the
\* code element's class holding {lang_prefix}{lang} when a language is set and
\* "linenums" when line numbering is on.
C8_Fallback ==
    (pc = "hilited" /\ (~pygments \/ ~Truthy(code.use_pygments))) =>
        /\ calls = <<>>
        /\ ~result.highlighted
        /\ result.markup =
              <<"<", "p", "r", "e", " ", "c", "l", "a", "s", "s", "=",
                "\"">> \o code.options["cssclass"].v \o <<"\"", ">", "<", "c", "o", "d", "e">>
              \o (IF ClassNames = <<>> THEN <<>>
                  ELSE <<" ", "c", "l", "a", "s", "s", "=",
                         "\"">> \o Join(ClassNames, <<" ">>) \o <<"\"">>)
              \o <<">">> \o Escaped(code.src) \o <<"\n", "<", "/", "c", "o", "d", "e", ">",
                   "<", "/", "p", "r", "e", ">", "\n">>
        /\ NoneRaw(Escaped(code.src))

C8_Witness ==
    /\ pc = "hilited"
    /\ ~pygments
    /\ shebang
    /\ kwargs.src = <<"#", "!", "P", "\n", "<", "&", "l", "t", ";", ">", "\"", "\n">>
    /\ kwargs.options = [use_pygments |-> Bool(TRUE), linenums |-> Bool(FALSE)]
    /\ calls = <<>>
    /\ result.markup = <<"<", "p", "r", "e", " ", "c", "l", "a", "s", "s", "=", "\"", "c",
                         "o", "d", "e", "h", "i", "l", "i", "t", "e", "\"", ">", "<", "c",
                         "o", "d", "e", " ", "c", "l", "a", "s", "s", "=", "\"", "l", "a",
                         "n", "g", "u", "a", "g", "e", "-", "p", "\"", ">", "&", "l", "t",
                         ";", "&", "a", "m", "p", ";", "l", "t", ";", "&", "g", "t", ";",
                         "&", "q", "u", "o", "t", ";", "\n", "<", "/", "c", "o", "d", "e",
                         ">", "<", "/", "p", "r", "e", ">", "\n">>

\* C9: hilite() leaves every option the invocation supplied as it was: the
\* language, the line numbering and the hl_lines list are not replaced by what
\* the first line of the block gives.
C9_SuppliedOptionsKept ==
    [][HiliteStep =>
          /\ Truthy(code.lang) => code'.lang = code.lang
          /\ code.options["linenos"] # None
                => code'.options["linenos"] = code.options["linenos"]
          /\ "hl_lines" \in DOMAIN code.options
                => code'.options["hl_lines"] = code.options["hl_lines"]]_vars

----------------------------------------------------------------------------
(* What the treeprocessor claims are stated over.                          *)

\* a `pre` element whose sole child is a `code` element
SoleCodeChild(e) == e.tag = PRE /\ Len(e.children) = 1 /\ e.children[1].tag = CODE

\* the texts of the code blocks of a tree, in document order
RECURSIVE CodeBlocks(_)
CodeBlocks(e) ==
    IF SoleCodeChild(e) THEN <<e.children[1].text>>
    ELSE Concat([i \in 1..Len(e.children) |-> CodeBlocks(e.children[i])])

\* the fragment stored for a block that is the whole document, the stash empty
Alone(text) == run(Block(text, <<>>), config, <<>>, pygments).st.stash[1]

\* C10: a run leaves self.config as it was and stores, for each code block, the
\* fragment that the block's text alone gives under that configuration: what
\* the first line of one block sets reaches no other block.
C10_BlocksIndependent ==
    [][(pc = "tree" /\ pc' = "ran") =>
          /\ config' = config
          /\ Len(stash') = Len(stash) + Len(CodeBlocks(root))
          /\ \A i \in 1..Len(CodeBlocks(root)) :
                stash'[Len(stash) + i] = Alone(CodeBlocks(root)[i])]_vars

C10_Witness ==
    /\ pc = "ran"
    /\ ~pygments
    /\ config["pygments_style"] = StrV(<<"m", "o", "n", "o", "k", "a", "i">>)
    /\ Len(stash) = 2
    /\ stash[1].markup = <<"<", "p", "r", "e", " ", "c", "l", "a", "s", "s", "=", "\"", "c",
                           "o", "d", "e", "h", "i", "l", "i", "t", "e", "\"", ">", "<", "c",
                           "o", "d", "e", " ", "c", "l", "a", "s", "s", "=", "\"", "l", "a",
                           "n", "g", "u", "a", "g", "e", "-", "p", " ", "l", "i", "n", "e",
                           "n", "u", "m", "s", "\"", ">", "x", "\n", "<", "/", "c", "o",
                           "d", "e", ">", "<", "/", "p", "r", "e", ">", "\n">>
    /\ stash[2].markup = <<"<", "p", "r", "e", " ", "c", "l", "a", "s", "s", "=", "\"", "c",
                           "o", "d", "e", "h", "i", "l", "i", "t", "e", "\"", ">", "<", "c",
                           "o", "d", "e", ">", "x", "\n", "<", "/", "c", "o", "d", "e", ">",
                           "<", "/", "p", "r", "e", ">", "\n">>

\* the places of the code blocks of a tree, in document order, each a path of
\* child positions from `path`
RECURSIVE BlockPaths(_, _)
BlockPaths(e, path) ==
    IF SoleCodeChild(e) THEN <<path>>
    ELSE Concat([i \in 1..Len(e.children) |-> BlockPaths(e.children[i], Append(path, i))])

\* what hilite() returns for a code element's text under self.config
HiliteOf(text) ==
    hilite(CodeHilite(code_unescape(text),
                      DictSet(DictSet(DictDel(config, "pygments_style"), "tab_length", IntV(4)),
                              "style",
                              DictGet(config, "pygments_style",
                                      StrV(<<"d", "e", "f", "a", "u", "l", "t">>)))),
           TRUE, pygments).result

\* block number i of the tree before the run (`paths` its code blocks): its
\* fragment is entry Len(stash) + i of the stash, and the block is left a
\* childless `p` whose text is that entry's placeholder
BlockStored(paths, i) ==
    /\ stash'[Len(stash) + i] = HiliteOf(NodeAt(root, paths[i]).children[1].text)
    /\ NodeAt(root', paths[i]).tag = P
    /\ NodeAt(root', paths[i]).children = <<>>
    /\ NodeAt(root', paths[i]).text = get_placeholder(Len(stash) + i - 1)

\* what a run stores for the code blocks at `paths`
RunStores(paths) ==
    /\ Len(stash') = Len(stash) + Len(paths)
    /\ SubSeq(stash', 1, Len(stash)) = stash
    /\ \A i \in 1..Len(paths) : BlockStored(paths, i)
    /\ BlockPaths(root', <<>>) = <<>>

SameButChildren(e, e2) == e2 = [e EXCEPT !.children = e2.children]

\* the block's tail and attributes are as they were
KeepsTailAndAttributes(b, b2) == b2.tail = b.tail /\ b2.attrib = b.attrib

\* e2 is e with nothing changed but its code blocks, each of them keeping its
\* tail and attributes
RECURSIVE Framed(_, _)
Framed(e, e2) ==
    IF SoleCodeChild(e) THEN KeepsTailAndAttributes(e, e2)
    ELSE /\ SameButChildren(e, e2)
         /\ Len(e2.children) = Len(e.children)
         /\ \A i \in 1..Len(e.children) : Framed(e.children[i], e2.children[i])

\* C12: a run changes of each code block only the children, the tag and the
\* text, its tail and attributes being as before, and changes nothing of any
\* other element.
C12_OnlyBlocksRewritten ==
    [][(pc = "tree" /\ pc' = "ran") => Framed(root, root')]_vars

----------------------------------------------------------------------------
(* What the code_unescape claim is stated over.                            *)

\* a text read once from the left, each "&lt;", "&gt;" and "&amp;" met giving
\* its character and every other character itself
RECURSIVE Decoded(_)
Decoded(s) ==
    IF s = <<>> THEN <<>>
    ELSE IF HasAt(s, 1, LT) THEN <<"<">> \o Decoded(From(s, 4))
    ELSE IF HasAt(s, 1, GT) THEN <<">">> \o Decoded(From(s, 4))
    ELSE IF HasAt(s, 1, AMP) THEN <<"&">> \o Decoded(From(s, 5))
    ELSE <<Head(s)>> \o Decoded(Tail(s))

\* the source CodeHilite is constructed with for a code element's text
SourceGiven(s) ==
    construct_block(Block(s, <<>>), <<>>, StrV(<<"d", "e", "f", "a", "u", "l", "t">>)).src

\* C13: code_unescape decodes the three entities "&lt;", "&gt;" and "&amp;" and
\* nothing else, no character it wrote being read again; a text escaped by the
\* block parser comes back as it was; and the decoded text is the source
\* CodeHilite is constructed with.
C13_UnescapeDecodes ==
    /\ pc \in {"unescaped", "decoded"} =>
          /\ unescaped = Decoded(block_text)
          /\ SourceGiven(block_text) = unescaped
    /\ pc = "unescaped" => unescaped = plain

\* "&lt;" was escaped to "&amp;lt;" and decoded to "&lt;"
C13_Witness ==
    /\ pc = "unescaped"
    /\ plain = LT
    /\ block_text = <<"&", "a", "m", "p", ";", "l", "t", ";">>
    /\ unescaped = LT

====
